---------------------------- MODULE Spec2Model ----------------------------
(***************************************************************************)
(* A model of the DNS query log pipeline of src/main.py:                   *)
(*   parse_log_file      line-by-line parser (lines are character tuples), *)
(*   send_data_to_lumu   chunking and the ThreadPoolExecutor upload,       *)
(*   calculate_statistics  Counter / most_common(5) ranking,               *)
(*   main                the sequential driver of the three.               *)
(* Strings of the program are tuples of one-character strings, so that     *)
(* str.split, str.partition, datetime.strptime and isoformat are computed  *)
(* character by character.                                                 *)
(***************************************************************************)
EXTENDS Integers, Sequences, FiniteSets, TLC

VARIABLES
    pc,             \* position of main: "parse", "send", "stats", "print", "done";
                    \* "direct" when a function is called on its own
    file,           \* the lines of the log file (each a character tuple)
    ioErrAt,        \* -1: no I/O error; 0: open() raises; k > 0: the read of line k raises
    parse_pc,       \* parse_log_file: "idle", "open", "loop", "returned"
    lineIdx,        \* number of lines the for loop has consumed
    dns_queries,    \* the list parse_log_file builds and main passes on
    fileErr,        \* TRUE once "File error: ..." was printed (line 54)
    skipMsgs,       \* number of "Skipping line due to error" messages (line 52)
    send_pc,        \* send_data_to_lumu: "idle", "enter", "submit", "join", "returned", "raised"
    data,           \* argument data of send_data_to_lumu
    chunk_size,     \* argument chunk_size of send_data_to_lumu
    chunks,         \* the list of chunks (line 88)
    nextSubmit,     \* index of the next chunk executor.map submits
    workQueue,      \* executor._work_queue: chunk indices, 0 is the None sentinel
    workers,        \* worker threads: the pool's threads: [waiting, running, exited]
    idleSem,        \* executor._idle_semaphore
    batchState,     \* per chunk: "queued", "running", "ok", "fail"
    posts,          \* per chunk: number of requests.post calls made for it
    exc,            \* exception that left the function called: "None", "ValueError", ...
    stats_pc,       \* calculate_statistics: "idle", "call", "returned", "raised"
    total_records,
    client_ip_rank,
    host_rank,
    divisions,      \* number of divisions by total_records evaluated
    printed         \* TRUE once print_statistics ran

vars == <<pc, file, ioErrAt, parse_pc, lineIdx, dns_queries, fileErr, skipMsgs,
          send_pc, data, chunk_size, chunks, nextSubmit, workQueue, workers,
          idleSem, batchState, posts, exc, stats_pc, total_records,
          client_ip_rank, host_rank, divisions, printed>>

parseVars == <<file, ioErrAt, parse_pc, lineIdx, dns_queries, fileErr, skipMsgs>>
sendVars == <<send_pc, data, chunk_size, chunks, nextSubmit, workQueue, workers,
              idleSem, batchState, posts>>
statsVars == <<stats_pc, total_records, client_ip_rank, host_rank, divisions>>

(***************************************************************************)
(* Bounds of the model and constants of the program.                       *)
(***************************************************************************)
MaxLines == 3           \* longest file of the parser specification
MaxData == 7            \* longest record list handed to send_data_to_lumu directly
MaxChunk == 3           \* largest chunk_size of a direct call
MaxRecs == 5            \* records calculate_statistics gets beyond the fixed prefix
BigFile == 1200         \* lines of the large file main is run on
MaxErrLine == 2         \* latest line at which main's file read may fail

MinParts == 13          \* line 31
MaxWorkers == 5         \* line 86
DefaultChunkSize == 500 \* line 57
TopN == 5               \* lines 113, 114

Min(a, b) == IF a < b THEN a ELSE b

(***************************************************************************)
(* Characters.                                                             *)
(***************************************************************************)
Whitespace == {" ", "\t", "\n"}
Digits == <<"0", "1", "2", "3", "4", "5", "6", "7", "8", "9">>
UpperCase == <<"A", "B", "C", "D", "E", "F", "G", "H", "I", "J", "K", "L", "M",
               "N", "O", "P", "Q", "R", "S", "T", "U", "V", "W", "X", "Y", "Z">>
LowerCase == <<"a", "b", "c", "d", "e", "f", "g", "h", "i", "j", "k", "l", "m",
               "n", "o", "p", "q", "r", "s", "t", "u", "v", "w", "x", "y", "z">>
MonthNames == << <<"j", "a", "n">>, <<"f", "e", "b">>, <<"m", "a", "r">>,
                 <<"a", "p", "r">>, <<"m", "a", "y">>, <<"j", "u", "n">>,
                 <<"j", "u", "l">>, <<"a", "u", "g">>, <<"s", "e", "p">>,
                 <<"o", "c", "t">>, <<"n", "o", "v">>, <<"d", "e", "c">> >>

IsDigit(c) == \E k \in 1..10 : Digits[k] = c
DigitVal(c) == (CHOOSE k \in 1..10 : Digits[k] = c) - 1
Lower(c) == IF \E k \in 1..26 : UpperCase[k] = c
            THEN LowerCase[CHOOSE k \in 1..26 : UpperCase[k] = c]
            ELSE c

(***************************************************************************)
(* str.split() with no argument: the maximal runs of non-whitespace.       *)
(***************************************************************************)
\* First index >= i holding whitespace (or not), Len(s) + 1 if there is none.
NextSpace(s, i) ==
    LET at == {j \in i..Len(s) : s[j] \in Whitespace}
    IN IF at = {} THEN Len(s) + 1 ELSE CHOOSE j \in at : \A k \in at : j <= k

NextNonSpace(s, i) ==
    LET at == {j \in i..Len(s) : s[j] \notin Whitespace}
    IN IF at = {} THEN Len(s) + 1 ELSE CHOOSE j \in at : \A k \in at : j <= k

\* One round of the splitting loop per token: skip whitespace, scan a token.
RECURSIVE SplitFrom(_, _, _)
SplitFrom(s, i, out) ==
    LET start == NextNonSpace(s, i)
        stop  == NextSpace(s, start)
    IN IF start > Len(s) THEN out
       ELSE SplitFrom(s, stop, Append(out, SubSeq(s, start, stop - 1)))

Split(s) == SplitFrom(s, 1, <<>>)

(***************************************************************************)
(* str.partition(sep)[0]: the part before the first sep, all of s if none. *)
(***************************************************************************)
PartitionHead(s, sep) ==
    LET at == {i \in 1..Len(s) : s[i] = sep}
    IN IF at = {} THEN s
       ELSE SubSeq(s, 1, (CHOOSE i \in at : \A j \in at : i <= j) - 1)

(***************************************************************************)
(* datetime.strptime(s, '%d-%b-%Y %H:%M:%S.%f').  The format compiles to   *)
(* the regular expression                                                  *)
(*   (3[0-1]|[1-2]\d|0[1-9]|[1-9]| [1-9])-(jan|...|dec)-(\d\d\d\d)\s+      *)
(*   (2[0-3]|[0-1]\d|\d):([0-5]\d|\d):(6[0-1]|[0-5]\d|\d)\.([0-9]{1,6})    *)
(* matched case-insensitively from the start of s; then all of s must be   *)
(* consumed, and datetime(...) validates year, day of month and second.    *)
(* A numeric field tries its two-character alternatives first and then its *)
(* one-character ones; every numeric field is followed by a literal, so    *)
(* backtracking into a shorter alternative can never succeed, and the      *)
(* match is computed left to right without backtracking.                   *)
(***************************************************************************)
NoMatch == [ok |-> FALSE, val |-> 0, next |-> 0]

MatchField(s, i, two, one) ==
    IF /\ i + 1 <= Len(s) /\ IsDigit(s[i]) /\ IsDigit(s[i + 1])
       /\ (10 * DigitVal(s[i]) + DigitVal(s[i + 1])) \in two
    THEN [ok |-> TRUE, val |-> 10 * DigitVal(s[i]) + DigitVal(s[i + 1]), next |-> i + 2]
    ELSE IF i <= Len(s) /\ IsDigit(s[i]) /\ DigitVal(s[i]) \in one
         THEN [ok |-> TRUE, val |-> DigitVal(s[i]), next |-> i + 1]
         ELSE NoMatch

MatchLit(s, i, c) ==
    IF i <= Len(s) /\ s[i] = c
    THEN [ok |-> TRUE, val |-> 0, next |-> i + 1]
    ELSE NoMatch

MatchMonth(s, i) ==
    IF i + 2 <= Len(s)
       /\ \E m \in 1..12 : MonthNames[m] = <<Lower(s[i]), Lower(s[i + 1]), Lower(s[i + 2])>>
    THEN [ok |-> TRUE,
          val |-> CHOOSE m \in 1..12 :
                      MonthNames[m] = <<Lower(s[i]), Lower(s[i + 1]), Lower(s[i + 2])>>,
          next |-> i + 3]
    ELSE NoMatch

MatchYear(s, i) ==
    IF i + 3 <= Len(s) /\ \A k \in 0..3 : IsDigit(s[i + k])
    THEN [ok |-> TRUE,
          val |-> 1000 * DigitVal(s[i]) + 100 * DigitVal(s[i + 1])
                  + 10 * DigitVal(s[i + 2]) + DigitVal(s[i + 3]),
          next |-> i + 4]
    ELSE NoMatch

RECURSIVE SkipSpace(_, _)
SkipSpace(s, i) == IF i <= Len(s) /\ s[i] \in Whitespace THEN SkipSpace(s, i + 1) ELSE i

MatchSpaces(s, i) ==
    IF i <= Len(s) /\ s[i] \in Whitespace
    THEN [ok |-> TRUE, val |-> 0, next |-> SkipSpace(s, i)]
    ELSE NoMatch

\* [0-9]{1,6}, greedy; val is the value of the digits right-padded to six.
RECURSIVE FracFrom(_, _, _, _)
FracFrom(s, i, n, acc) ==
    IF n < 6 /\ i <= Len(s) /\ IsDigit(s[i])
    THEN FracFrom(s, i + 1, n + 1, 10 * acc + DigitVal(s[i]))
    ELSE IF n = 0 THEN NoMatch
         ELSE [ok |-> TRUE,
               val |-> acc * (CASE n = 1 -> 100000 [] n = 2 -> 10000 [] n = 3 -> 1000
                                [] n = 4 -> 100 [] n = 5 -> 10 [] OTHER -> 1),
               next |-> i]

IsLeap(y) == (y % 4 = 0 /\ y % 100 /= 0) \/ y % 400 = 0
DaysInMonth(y, m) ==
    IF m = 2 THEN (IF IsLeap(y) THEN 29 ELSE 28)
    ELSE IF m \in {4, 6, 9, 11} THEN 30 ELSE 31

ValueError == [err |-> TRUE]

\* The format '%d-%b-%Y %H:%M:%S.%f' (line 35), directive by directive.
Directives == <<"%d", "-", "%b", "-", "%Y", " ", "%H", ":", "%M", ":", "%S", ".", "%f">>

MatchDirective(s, i, d) ==
    CASE d = "%d" -> MatchField(s, i, 1..31, 1..9)
      [] d = "%b" -> MatchMonth(s, i)
      [] d = "%Y" -> MatchYear(s, i)
      [] d = "%H" -> MatchField(s, i, 0..23, 0..9)
      [] d = "%M" -> MatchField(s, i, 0..59, 0..9)
      [] d = "%S" -> MatchField(s, i, 0..61, 0..9)
      [] d = "%f" -> FracFrom(s, i, 0, 0)
      [] d = " "  -> MatchSpaces(s, i)
      [] OTHER    -> MatchLit(s, i, d)

\* Match Directives[k..] at s[i..]; vals collects the value of each directive.
RECURSIVE MatchFormat(_, _, _, _)
MatchFormat(s, i, k, vals) ==
    IF k > Len(Directives) THEN [ok |-> TRUE, next |-> i, vals |-> vals]
    ELSE LET m == MatchDirective(s, i, Directives[k])
         IN IF m.ok THEN MatchFormat(s, m.next, k + 1, Append(vals, m.val))
            ELSE [ok |-> FALSE, next |-> i, vals |-> vals]

Strptime(s) ==
    LET r == MatchFormat(s, 1, 1, <<>>)
    IN IF ~r.ok THEN ValueError                            \* does not match format
       ELSE IF r.next /= Len(s) + 1 THEN ValueError        \* unconverted data remains
       ELSE IF r.vals[5] < 1 THEN ValueError               \* year 0 is out of range
       ELSE IF r.vals[1] > DaysInMonth(r.vals[5], r.vals[3])
            THEN ValueError                                \* day is out of range for month
       ELSE IF r.vals[11] > 59 THEN ValueError             \* second must be in 0..59
       ELSE [err |-> FALSE, year |-> r.vals[5], month |-> r.vals[3], day |-> r.vals[1],
             hour |-> r.vals[7], minute |-> r.vals[9], second |-> r.vals[11],
             microsecond |-> r.vals[13]]

(***************************************************************************)
(* datetime.isoformat() + 'Z': YYYY-MM-DDTHH:MM:SS[.ffffff]Z; the fraction *)
(* is left out when microsecond is 0.                                      *)
(***************************************************************************)
RECURSIVE Pad(_, _)
Pad(n, width) ==
    IF width = 0 THEN <<>> ELSE Append(Pad(n \div 10, width - 1), Digits[(n % 10) + 1])

Isoformat(dt) ==
    Pad(dt.year, 4) \o <<"-">> \o Pad(dt.month, 2) \o <<"-">> \o Pad(dt.day, 2)
    \o <<"T">> \o Pad(dt.hour, 2) \o <<":">> \o Pad(dt.minute, 2)
    \o <<":">> \o Pad(dt.second, 2)
    \o (IF dt.microsecond = 0 THEN <<>> ELSE <<".">> \o Pad(dt.microsecond, 6))

(***************************************************************************)
(* The body of the for loop (lines 29-52) on one line: the record it       *)
(* appends, or why it appends none.                                        *)
(***************************************************************************)
\* The field-count test written len(parts) <= 13.
ParseLineOffByOne(line) ==
    LET parts == Split(line)
    IN IF Len(parts) <= MinParts THEN [kind |-> "short"]
       ELSE LET dt == Strptime(parts[1] \o <<" ">> \o parts[2])
            IN IF dt.err THEN [kind |-> "error"]
               ELSE [kind |-> "record",
                     rec |-> [timestamp |-> Isoformat(dt) \o <<"Z">>,
                              name |-> parts[10],
                              client_ip |-> PartitionHead(parts[7], "#"),
                              client_name |-> parts[6],
                              type |-> parts[12]]]

ParseLine(line) ==
    LET parts == Split(line)
    IN IF Len(parts) < MinParts THEN [kind |-> "short"]
       ELSE LET dt == Strptime(parts[1] \o <<" ">> \o parts[2])
            IN IF dt.err THEN [kind |-> "error"]
               ELSE [kind |-> "record",
                     rec |-> [timestamp |-> Isoformat(dt) \o <<"Z">>,
                              name |-> parts[10],
                              client_ip |-> PartitionHead(parts[7], "#"),
                              client_name |-> parts[6],
                              type |-> parts[12]]]

(***************************************************************************)
(* Sample log lines.                                                       *)
(***************************************************************************)
LineOk ==
    <<"0", "1", "-", "J", "a", "n", "-", "2", "0", "2", "0", " ", "1", "2", ":", "0", "0", ":", "0", "0", ".", "1", "2", "3", "4", "5", "6", " ", "f", "2", " ", "f", "3", " ", "f", "4", " ", "h", "o", "s", "t", "1", " ", "1", "0", ".", "0", ".", "0", ".", "1", "#", "5", "3", " ", "f", "7", " ", "f", "8", " ", "e", "x", "a", "m", "p", "l", "e", ".", "c", "o", "m", " ", "f", "1", "0", " ", "A", " ", "f", "1", "2", "\n">>
LineOkNoPort ==
    <<" ", "1", "-", "j", "a", "n", "-", "2", "0", "2", "0", " ", "\t", "1", ":", "2", ":", "3", ".", "5", " ", "\t", "f", "2", " ", "\t", "f", "3", " ", "\t", "f", "4", " ", "\t", "h", "o", "s", "t", "2", " ", "\t", "1", "0", ".", "0", ".", "0", ".", "2", " ", "\t", "f", "7", " ", "\t", "f", "8", " ", "\t", "b", ".", "o", "r", "g", " ", "\t", "f", "1", "0", " ", "\t", "A", "A", "A", "A", " ", "\t", "f", "1", "2", " ", "\t", "f", "1", "3">>
LineOkHashes ==
    <<"2", "9", "-", "F", "e", "b", "-", "2", "0", "2", "0", " ", "2", "3", ":", "5", "9", ":", "5", "9", ".", "0", "0", "0", "0", "0", "0", " ", "f", "2", " ", "f", "3", " ", "f", "4", " ", "h", "o", "s", "t", "1", " ", "1", "0", ".", "0", ".", "0", ".", "1", "#", "5", "3", "#", "x", " ", "f", "7", " ", "f", "8", " ", "b", ".", "o", "r", "g", " ", "f", "1", "0", " ", "A", " ", "f", "1", "2", "\n">>
LineOkEmptyIp ==
    <<"3", "1", "-", "D", "E", "C", "-", "1", "9", "9", "9", " ", "0", "0", ":", "0", "0", ":", "0", "0", ".", "0", " ", "f", "2", " ", "f", "3", " ", "f", "4", " ", "h", "o", "s", "t", "2", " ", "#", "5", "3", " ", "f", "7", " ", "f", "8", " ", "e", "x", "a", "m", "p", "l", "e", ".", "c", "o", "m", " ", "f", "1", "0", " ", "A", " ", "f", "1", "2", "\n">>
LineShort ==
    <<"0", "1", "-", "J", "a", "n", "-", "2", "0", "2", "0", " ", "1", "2", ":", "0", "0", ":", "0", "0", ".", "1", "2", "3", "4", "5", "6", " ", "f", "2", " ", "f", "3", " ", "f", "4", " ", "h", "o", "s", "t", "1", " ", "1", "0", ".", "0", ".", "0", ".", "1", "#", "5", "3", " ", "f", "7", " ", "f", "8", " ", "e", "x", "a", "m", "p", "l", "e", ".", "c", "o", "m", " ", "f", "1", "0", " ", "A", "\n">>
LineEmpty ==
    <<"\n">>
LineBadDay ==
    <<"3", "2", "-", "J", "a", "n", "-", "2", "0", "2", "0", " ", "1", "2", ":", "0", "0", ":", "0", "0", ".", "1", "2", "3", "4", "5", "6", " ", "f", "2", " ", "f", "3", " ", "f", "4", " ", "h", "o", "s", "t", "1", " ", "1", "0", ".", "0", ".", "0", ".", "1", "#", "5", "3", " ", "f", "7", " ", "f", "8", " ", "e", "x", "a", "m", "p", "l", "e", ".", "c", "o", "m", " ", "f", "1", "0", " ", "A", " ", "f", "1", "2", "\n">>
LineBadMonth ==
    <<"0", "1", "-", "F", "o", "o", "-", "2", "0", "2", "0", " ", "1", "2", ":", "0", "0", ":", "0", "0", ".", "1", "2", "3", "4", "5", "6", " ", "f", "2", " ", "f", "3", " ", "f", "4", " ", "h", "o", "s", "t", "1", " ", "1", "0", ".", "0", ".", "0", ".", "1", "#", "5", "3", " ", "f", "7", " ", "f", "8", " ", "e", "x", "a", "m", "p", "l", "e", ".", "c", "o", "m", " ", "f", "1", "0", " ", "A", " ", "f", "1", "2", "\n">>
LineBadLeap ==
    <<"2", "9", "-", "F", "e", "b", "-", "2", "0", "2", "1", " ", "1", "2", ":", "0", "0", ":", "0", "0", ".", "1", "2", "3", "4", "5", "6", " ", "f", "2", " ", "f", "3", " ", "f", "4", " ", "h", "o", "s", "t", "1", " ", "1", "0", ".", "0", ".", "0", ".", "1", "#", "5", "3", " ", "f", "7", " ", "f", "8", " ", "e", "x", "a", "m", "p", "l", "e", ".", "c", "o", "m", " ", "f", "1", "0", " ", "A", " ", "f", "1", "2", "\n">>
LineBadSecond ==
    <<"0", "1", "-", "J", "a", "n", "-", "2", "0", "2", "0", " ", "1", "2", ":", "0", "0", ":", "6", "0", ".", "1", " ", "f", "2", " ", "f", "3", " ", "f", "4", " ", "h", "o", "s", "t", "1", " ", "1", "0", ".", "0", ".", "0", ".", "1", "#", "5", "3", " ", "f", "7", " ", "f", "8", " ", "e", "x", "a", "m", "p", "l", "e", ".", "c", "o", "m", " ", "f", "1", "0", " ", "A", " ", "f", "1", "2", "\n">>
LineBadFrac ==
    <<"0", "1", "-", "J", "a", "n", "-", "2", "0", "2", "0", " ", "1", "2", ":", "0", "0", ":", "0", "0", ".", "1", "2", "3", "4", "5", "6", "7", " ", "f", "2", " ", "f", "3", " ", "f", "4", " ", "h", "o", "s", "t", "1", " ", "1", "0", ".", "0", ".", "0", ".", "1", "#", "5", "3", " ", "f", "7", " ", "f", "8", " ", "e", "x", "a", "m", "p", "l", "e", ".", "c", "o", "m", " ", "f", "1", "0", " ", "A", " ", "f", "1", "2", "\n">>
LineNoFrac ==
    <<"0", "1", "-", "J", "a", "n", "-", "2", "0", "2", "0", " ", "1", "2", ":", "0", "0", ":", "0", "0", " ", "f", "2", " ", "f", "3", " ", "f", "4", " ", "h", "o", "s", "t", "1", " ", "1", "0", ".", "0", ".", "0", ".", "1", "#", "5", "3", " ", "f", "7", " ", "f", "8", " ", "e", "x", "a", "m", "p", "l", "e", ".", "c", "o", "m", " ", "f", "1", "0", " ", "A", " ", "f", "1", "2", "\n">>

SampleLines == {LineOk, LineOkNoPort, LineOkHashes, LineOkEmptyIp, LineShort,
                LineEmpty, LineBadDay, LineBadMonth, LineBadLeap, LineBadSecond,
                LineBadFrac, LineNoFrac}

(***************************************************************************)
(* parse_log_file (lines 24-55).                                           *)
(***************************************************************************)
ParseIdle ==
    /\ parse_pc = "idle" /\ lineIdx = 0 /\ dns_queries = <<>>
    /\ fileErr = FALSE /\ skipMsgs = 0

\* open(file_path, 'r'): raises FileNotFoundError / IOError, or enters the loop.
ParseOpen ==
    /\ parse_pc = "open"
    /\ IF ioErrAt = 0
       THEN /\ fileErr' = TRUE
            /\ parse_pc' = "returned"
       ELSE /\ fileErr' = fileErr
            /\ parse_pc' = "loop"
    /\ UNCHANGED <<pc, file, ioErrAt, lineIdx, dns_queries, skipMsgs, exc, printed>>
    /\ UNCHANGED sendVars /\ UNCHANGED statsVars

\* Reading the next line raises IOError: caught at line 53, then line 55
\* returns the list built so far.
ParseReadFails ==
    /\ parse_pc = "loop" /\ lineIdx < Len(file) /\ ioErrAt = lineIdx + 1
    /\ fileErr' = TRUE
    /\ parse_pc' = "returned"
    /\ UNCHANGED <<pc, file, ioErrAt, lineIdx, dns_queries, skipMsgs, exc, printed>>
    /\ UNCHANGED sendVars /\ UNCHANGED statsVars

\* One iteration of the for loop.
ParseStep ==
    /\ parse_pc = "loop" /\ lineIdx < Len(file) /\ ioErrAt /= lineIdx + 1
    /\ \E r \in {ParseLine(file[lineIdx + 1])} :
          /\ dns_queries' = IF r.kind = "record" THEN Append(dns_queries, r.rec)
                            ELSE dns_queries
          /\ skipMsgs' = IF r.kind = "error" THEN skipMsgs + 1 ELSE skipMsgs
    /\ lineIdx' = lineIdx + 1
    /\ UNCHANGED <<pc, file, ioErrAt, parse_pc, fileErr, exc, printed>>
    /\ UNCHANGED sendVars /\ UNCHANGED statsVars

\* The file is exhausted: return dns_queries.
ParseReturn ==
    /\ parse_pc = "loop" /\ lineIdx = Len(file)
    /\ parse_pc' = "returned"
    /\ UNCHANGED <<pc, file, ioErrAt, lineIdx, dns_queries, fileErr, skipMsgs, exc, printed>>
    /\ UNCHANGED sendVars /\ UNCHANGED statsVars

ParseNext == ParseOpen \/ ParseReadFails \/ ParseStep \/ ParseReturn

SendIdle ==
    /\ send_pc = "idle" /\ data = <<>> /\ chunk_size = DefaultChunkSize
    /\ chunks = <<>> /\ nextSubmit = 1 /\ workQueue = <<>>
    /\ workers = [waiting |-> 0, running |-> {}, exited |-> 0]
    /\ idleSem = 0 /\ batchState = <<>> /\ posts = <<>>

StatsIdle ==
    /\ stats_pc = "idle" /\ total_records = 0 /\ client_ip_rank = <<>>
    /\ host_rank = <<>> /\ divisions = 0

\* parse_log_file called on its own, on any file of up to MaxLines sample lines.
InitParse ==
    /\ pc = "direct" /\ exc = "None" /\ printed = FALSE
    /\ \E n \in 0..MaxLines : file \in [1..n -> SampleLines]
    /\ ioErrAt \in -1..Len(file)
    /\ parse_pc = "open" /\ lineIdx = 0 /\ dns_queries = <<>>
    /\ fileErr = FALSE /\ skipMsgs = 0
    /\ SendIdle /\ StatsIdle

SpecParse == InitParse /\ [][ParseNext]_vars

(***************************************************************************)
(* send_data_to_lumu (lines 57-90).                                        *)
(***************************************************************************)
\* len(range(start, stop, step)) for step /= 0.
RangeLen(start, stop, step) ==
    IF step > 0
    THEN IF start < stop THEN ((stop - start - 1) \div step) + 1 ELSE 0
    ELSE IF start > stop THEN ((start - stop - 1) \div (0 - step)) + 1 ELSE 0

RangeSeq(start, stop, step) ==
    [k \in 1..RangeLen(start, stop, step) |-> start + (k - 1) * step]

\* data[lo:hi] for 0 <= lo <= hi: the end is clamped to len(data).
Slice(d, lo, hi) == SubSeq(d, lo + 1, Min(hi, Len(d)))

\* range(0, len(data) - chunk_size + 1, chunk_size): full chunks only.
ChunksFullOnly(d, cs) ==
    LET idx == RangeSeq(0, Len(d) - cs + 1, cs)
    IN [k \in 1..Len(idx) |-> Slice(d, idx[k], idx[k] + cs)]

\* Line 88: [data[i:i + chunk_size] for i in range(0, len(data), chunk_size)].
Chunks(d, cs) ==
    LET idx == RangeSeq(0, Len(d), cs)
    IN [k \in 1..Len(idx) |-> Slice(d, idx[k], idx[k] + cs)]

\* Threads of the pool are interchangeable: workers counts those blocked in
\* work_queue.get() and those that returned, and holds the chunks in flight.
NoWorkers == [waiting |-> 0, running |-> {}, exited |-> 0]
NumThreads == workers.waiting + Cardinality(workers.running) + workers.exited

\* _adjust_thread_count starts a thread for every submit.
MaySpawnUnbounded(n) == TRUE

\* _adjust_thread_count: a new thread only while fewer than max_workers exist.
MaySpawn(n) == n < MaxWorkers

\* shutdown(wait=True, cancel_futures=True): pending work items are dropped.
ShutdownCancel(q) == <<0>>

\* __exit__ -> shutdown(wait=True): pending work items stay, None is queued.
ShutdownQueue(q) == Append(q, 0)

\* shutdown(wait=False): no thread is joined.
JoinNoWait(ws) == TRUE

\* shutdown(wait=True) joins every thread of the pool.
JoinReady(ws) == ws.waiting = 0 /\ ws.running = {}

\* range(0, len(data), 0) raises ValueError inside the with block; __exit__
\* shuts the (threadless) executor down and the exception leaves the call.
SendRangeRaises ==
    /\ send_pc = "enter" /\ chunk_size = 0
    /\ send_pc' = "raised"
    /\ exc' = "ValueError"
    /\ UNCHANGED <<pc, printed, data, chunk_size, chunks, nextSubmit, workQueue,
                   workers, idleSem, batchState, posts>>
    /\ UNCHANGED parseVars /\ UNCHANGED statsVars

\* Line 88: the list of chunks.
SendBuildChunks ==
    /\ send_pc = "enter" /\ chunk_size /= 0
    /\ chunks' = Chunks(data, chunk_size)
    /\ batchState' = [k \in 1..Len(chunks') |-> "new"]
    /\ posts' = [k \in 1..Len(chunks') |-> 0]
    /\ send_pc' = "submit"
    /\ UNCHANGED <<pc, printed, exc, data, chunk_size, nextSubmit, workQueue,
                   workers, idleSem>>
    /\ UNCHANGED parseVars /\ UNCHANGED statsVars

\* executor.map submits every chunk before it returns: submit() queues the
\* work item and _adjust_thread_count() takes an idle token or starts a thread.
SendSubmit ==
    /\ send_pc = "submit" /\ nextSubmit <= Len(chunks)
    /\ workQueue' = Append(workQueue, nextSubmit)
    /\ batchState' = [batchState EXCEPT ![nextSubmit] = "queued"]
    /\ nextSubmit' = nextSubmit + 1
    /\ IF idleSem > 0
       THEN idleSem' = idleSem - 1 /\ workers' = workers
       ELSE /\ idleSem' = idleSem
            /\ workers' = IF MaySpawn(NumThreads)
                          THEN [workers EXCEPT !.waiting = @ + 1]
                          ELSE workers
    /\ UNCHANGED <<pc, printed, exc, send_pc, data, chunk_size, chunks, posts>>
    /\ UNCHANGED parseVars /\ UNCHANGED statsVars

\* The iterator map returns is dropped unread; leaving the with block calls
\* shutdown(wait=True).
SendShutdown ==
    /\ send_pc = "submit" /\ nextSubmit > Len(chunks)
    /\ workQueue' = ShutdownQueue(workQueue)
    /\ send_pc' = "join"
    /\ UNCHANGED <<pc, printed, exc, data, chunk_size, chunks, nextSubmit, workers,
                   idleSem, batchState, posts>>
    /\ UNCHANGED parseVars /\ UNCHANGED statsVars

\* shutdown's t.join() for every thread is over: the function returns None.
SendJoin ==
    /\ send_pc = "join" /\ JoinReady(workers)
    /\ send_pc' = "returned"
    /\ UNCHANGED <<pc, printed, exc, data, chunk_size, chunks, nextSubmit, workQueue,
                   workers, idleSem, batchState, posts>>
    /\ UNCHANGED parseVars /\ UNCHANGED statsVars

\* _worker: work_queue.get() yields a work item, post_chunk(chunk) starts.
WorkerTake ==
    /\ workers.waiting > 0 /\ workQueue /= <<>> /\ Head(workQueue) /= 0
    /\ workers' = [workers EXCEPT !.waiting = @ - 1,
                                  !.running = @ \cup {Head(workQueue)}]
    /\ batchState' = [batchState EXCEPT ![Head(workQueue)] = "running"]
    /\ workQueue' = Tail(workQueue)
    /\ UNCHANGED <<pc, printed, exc, send_pc, data, chunk_size, chunks, nextSubmit,
                   idleSem, posts>>
    /\ UNCHANGED parseVars /\ UNCHANGED statsVars

PostOutcomes == {"2xx", "non2xx", "transport_error"}

\* post_chunk (lines 78-83): one requests.post; a transport error or a non-2xx
\* status (raise_for_status) is a RequestException, caught, and a message is
\* returned either way.  The worker then releases the idle semaphore and goes
\* back to work_queue.get().
post_chunk ==
    \E item \in workers.running, outcome \in PostOutcomes :
        /\ posts' = [posts EXCEPT ![item] = @ + 1]
        /\ batchState' = [batchState EXCEPT ![item] =
                              IF outcome = "2xx" THEN "ok" ELSE "fail"]
        /\ workers' = [workers EXCEPT !.waiting = @ + 1, !.running = @ \ {item}]
        /\ idleSem' = idleSem + 1
        /\ UNCHANGED <<pc, printed, exc, send_pc, data, chunk_size, chunks, nextSubmit,
                       workQueue>>
        /\ UNCHANGED parseVars /\ UNCHANGED statsVars

\* _worker: work_queue.get() yields None after shutdown: put it back, return.
WorkerExit ==
    /\ workers.waiting > 0 /\ workQueue /= <<>> /\ Head(workQueue) = 0
    /\ workers' = [workers EXCEPT !.waiting = @ - 1, !.exited = @ + 1]
    /\ UNCHANGED <<pc, printed, exc, send_pc, data, chunk_size, chunks, nextSubmit,
                   workQueue, idleSem, batchState, posts>>
    /\ UNCHANGED parseVars /\ UNCHANGED statsVars

SendNext ==
    \/ SendRangeRaises
    \/ SendBuildChunks
    \/ SendSubmit
    \/ SendShutdown
    \/ SendJoin
    \/ WorkerTake
    \/ post_chunk
    \/ WorkerExit

\* The i-th record of the lists handed to send_data_to_lumu directly.
SampleRecord(i) ==
    [timestamp |-> Isoformat([year |-> 2020, month |-> 1, day |-> 1, hour |-> 0,
                              minute |-> 0, second |-> i % 60, microsecond |-> i])
                   \o <<"Z">>,
     name |-> <<"h", Digits[(i % 2) + 1]>>,
     client_ip |-> <<"1", "0", ".", "0", ".", "0", ".", Digits[(i % 3) + 1]>>,
     client_name |-> <<"c">>,
     type |-> <<"A">>]

\* send_data_to_lumu called on its own: a list of MaxData down to 0 records
\* and any chunk_size from -MaxChunk to MaxChunk.
InitSend ==
    /\ pc = "direct" /\ exc = "None" /\ printed = FALSE
    /\ file = <<>> /\ ioErrAt = -1 /\ ParseIdle
    /\ \E n \in 0..MaxData : data = [i \in 1..(MaxData - n) |-> SampleRecord(i)]
    /\ chunk_size \in (0 - MaxChunk)..MaxChunk
    /\ send_pc = "enter" /\ chunks = <<>> /\ nextSubmit = 1 /\ workQueue = <<>>
    /\ workers = NoWorkers /\ idleSem = 0 /\ batchState = <<>> /\ posts = <<>>
    /\ StatsIdle

SpecSend == InitSend /\ [][SendNext]_vars

(***************************************************************************)
(* calculate_statistics (lines 107-116).  A Counter is the sequence of its *)
(* [key, count] entries in insertion (first-encountered) order.            *)
(***************************************************************************)
HasKey(c, k) == \E i \in 1..Len(c) : c[i].key = k
CountOf(c, k) == IF HasKey(c, k) THEN c[CHOOSE i \in 1..Len(c) : c[i].key = k].count ELSE 0

\* Counter.update(b) on a: counts add up, new keys are appended in b's order.
MergeCounts(a, b) ==
    [i \in 1..Len(a) |-> [key |-> a[i].key, count |-> a[i].count + CountOf(b, a[i].key)]]
    \o SelectSeq(b, LAMBDA e : ~HasKey(a, e.key))

\* Counter(keys[lo..hi]), by halves: counting is a left-to-right pass, and
\* merging the counts of two adjacent stretches gives the same entries.
RECURSIVE CountRange(_, _, _)
CountRange(keys, lo, hi) ==
    IF lo > hi THEN <<>>
    ELSE IF lo = hi THEN <<[key |-> keys[lo], count |-> 1]>>
    ELSE MergeCounts(CountRange(keys, lo, (lo + hi) \div 2),
                     CountRange(keys, ((lo + hi) \div 2) + 1, hi))

Counter(keys) == CountRange(keys, 1, Len(keys))

\* Insertion before the entries of equal count: ties in reverse order.
InsertByCountUnstable(out, e) ==
    LET pos == Cardinality({i \in 1..Len(out) : out[i].count > e.count})
    IN SubSeq(out, 1, pos) \o <<e>> \o SubSeq(out, pos + 1, Len(out))

\* sorted(..., key=count, reverse=True) is stable: an entry goes after every
\* entry whose count is at least its own.
InsertByCount(out, e) ==
    LET pos == Cardinality({i \in 1..Len(out) : out[i].count >= e.count})
    IN SubSeq(out, 1, pos) \o <<e>> \o SubSeq(out, pos + 1, Len(out))

RECURSIVE SortedFrom(_, _, _)
SortedFrom(items, k, out) ==
    IF k > Len(items) THEN out
    ELSE SortedFrom(items, k + 1, InsertByCount(out, items[k]))

\* Counter.most_common(n) = heapq.nlargest(n, items, key=count), which is
\* sorted(items, key=count, reverse=True)[:n].
MostCommon(c, n) == SubSeq(SortedFrom(c, 1, <<>>), 1, Min(n, Len(c)))

\* (count / total_records) * 100 as an exact fraction; the division raises
\* ZeroDivisionError when total_records is 0.
Percentage(count, total) == [num |-> count * 100, den |-> total]

\* The factor 100 / total_records computed once, ahead of the comprehension.
RankEager(items, total) ==
    IF total = 0 THEN [err |-> TRUE, rows |-> <<>>, divs |-> 1]
    ELSE [err |-> FALSE,
          rows |-> [k \in 1..Len(items) |->
                       <<items[k].key, items[k].count, Percentage(items[k].count, total)>>],
          divs |-> 1]

\* Lines 113, 114: [(key, count, (count / total_records) * 100) for key, count
\* in ...most_common(5)]: one division per entry, none for an empty list.
Rank(items, total) ==
    IF total = 0 /\ Len(items) > 0 THEN [err |-> TRUE, rows |-> <<>>, divs |-> 1]
    ELSE [err |-> FALSE,
          rows |-> [k \in 1..Len(items) |->
                       <<items[k].key, items[k].count, Percentage(items[k].count, total)>>],
          divs |-> Len(items)]

FieldOf(recs, f) == [i \in 1..Len(recs) |-> recs[i][f]]

\* The values are bound once each, as the local variables of the function.
calculate_statistics ==
    /\ stats_pc = "call"
    /\ \E total \in {Len(dns_queries)} :
       \E client_ip_counts \in {Counter(FieldOf(dns_queries, "client_ip"))} :
       \E host_counts \in {Counter(FieldOf(dns_queries, "name"))} :
       \E ips \in {Rank(MostCommon(client_ip_counts, TopN), total)} :
       \E hosts \in {IF ips.err THEN [err |-> TRUE, rows |-> <<>>, divs |-> 0]
                     ELSE Rank(MostCommon(host_counts, TopN), total)} :
          IF ips.err \/ hosts.err
          THEN /\ stats_pc' = "raised"
               /\ exc' = "ZeroDivisionError"
               /\ divisions' = ips.divs + hosts.divs
               /\ UNCHANGED <<total_records, client_ip_rank, host_rank>>
          ELSE /\ stats_pc' = "returned"
               /\ exc' = exc
               /\ total_records' = total
               /\ client_ip_rank' = ips.rows
               /\ host_rank' = hosts.rows
               /\ divisions' = ips.divs + hosts.divs
    /\ UNCHANGED <<pc, printed>>
    /\ UNCHANGED parseVars /\ UNCHANGED sendVars

\* Records for calculate_statistics: six client addresses and six hosts, the
\* hosts in the opposite order.
StatRecord(k) ==
    [timestamp |-> Isoformat([year |-> 2020, month |-> 1, day |-> 1, hour |-> 0,
                              minute |-> 0, second |-> 0, microsecond |-> 0]) \o <<"Z">>,
     name |-> <<"h", Digits[8 - k]>>,
     client_ip |-> <<"1", "0", ".", "0", ".", "0", ".", Digits[k + 1]>>,
     client_name |-> <<"c">>,
     type |-> <<"A">>]

StatRecords == {StatRecord(k) : k \in 1..6}

\* Every kind once, in either order: more distinct keys than a rank holds.
StatPrefixes ==
    {<<>>, [k \in 1..6 |-> StatRecord(k)], [k \in 1..6 |-> StatRecord(7 - k)]}

\* calculate_statistics called on its own: any list of up to MaxRecs records,
\* alone or after one record of every kind.
InitStats ==
    /\ pc = "direct" /\ exc = "None" /\ printed = FALSE
    /\ file = <<>> /\ ioErrAt = -1 /\ parse_pc = "idle" /\ lineIdx = 0
    /\ fileErr = FALSE /\ skipMsgs = 0
    /\ \E p \in StatPrefixes, n \in 0..MaxRecs :
           \E t \in [1..n -> StatRecords] : dns_queries = p \o t
    /\ SendIdle
    /\ stats_pc = "call" /\ total_records = 0 /\ client_ip_rank = <<>>
    /\ host_rank = <<>> /\ divisions = 0

SpecStats == InitStats /\ [][calculate_statistics]_vars

(***************************************************************************)
(* main (lines 152-155).                                                   *)
(***************************************************************************)
\* Line 153: send_data_to_lumu(dns_queries), chunk_size at its default.
MainCallSend ==
    /\ pc = "parse" /\ parse_pc = "returned"
    /\ pc' = "send"
    /\ send_pc' = "enter"
    /\ data' = dns_queries
    /\ chunk_size' = DefaultChunkSize
    /\ UNCHANGED <<printed, exc, chunks, nextSubmit, workQueue, workers, idleSem,
                   batchState, posts>>
    /\ UNCHANGED parseVars /\ UNCHANGED statsVars

\* Line 154: calculate_statistics(dns_queries).
MainCallStats ==
    /\ pc = "send" /\ send_pc = "returned"
    /\ pc' = "stats"
    /\ stats_pc' = "call"
    /\ UNCHANGED <<printed, exc, total_records, client_ip_rank, host_rank, divisions>>
    /\ UNCHANGED parseVars /\ UNCHANGED sendVars

\* Line 155: print_statistics(...), then main returns.
print_statistics ==
    /\ pc = "stats" /\ stats_pc = "returned"
    /\ printed' = TRUE
    /\ pc' = "done"
    /\ UNCHANGED exc
    /\ UNCHANGED parseVars /\ UNCHANGED sendVars /\ UNCHANGED statsVars

\* Files main is run on: empty, nothing parsable, three valid lines naming
\* 10.0.0.1 twice and 10.0.0.2 once, and BigFile valid lines.
MainFiles ==
    { <<>>,
      <<LineShort, LineBadDay>>,
      <<LineOk, LineOkNoPort, LineOkHashes>>,
      [i \in 1..BigFile |-> IF i % 2 = 0 THEN LineOk ELSE LineOkNoPort] }

\* main(file_path): line 152 calls parse_log_file.
InitMain ==
    /\ pc = "parse" /\ exc = "None" /\ printed = FALSE
    /\ file \in MainFiles
    /\ ioErrAt \in -1..Min(Len(file), MaxErrLine)
    /\ parse_pc = "open" /\ lineIdx = 0 /\ dns_queries = <<>>
    /\ fileErr = FALSE /\ skipMsgs = 0
    /\ SendIdle /\ StatsIdle

MainNext ==
    \/ ParseOpen
    \/ ParseReadFails
    \/ ParseStep
    \/ ParseReturn
    \/ MainCallSend
    \/ SendBuildChunks
    \/ SendSubmit
    \/ SendShutdown
    \/ SendJoin
    \/ WorkerTake
    \/ post_chunk
    \/ WorkerExit
    \/ MainCallStats
    \/ calculate_statistics
    \/ print_statistics

SpecMain == InitMain /\ [][MainNext]_vars

\* The program entered through main or through send_data_to_lumu.
InitUpload == InitMain \/ InitSend
UploadNext == MainNext \/ SendRangeRaises
SpecUpload == InitUpload /\ [][UploadNext]_vars

(***************************************************************************)
(* Properties.                                                             *)
(***************************************************************************)
Terminal == {"ok", "fail"}
InFlight == {k \in 1..Len(batchState) : batchState[k] = "running"}
Queued == {k \in 1..Len(batchState) : batchState[k] = "queued"}

\* C1: at every moment of an upload at most MaxWorkers (5) post_chunk calls
\* have started and not finished, however many chunks there are; the other
\* submitted chunks are still queued.
C1_ConcurrencyBound ==
    /\ Cardinality(InFlight) <= MaxWorkers
    /\ \A k \in 1..Len(batchState) :
           batchState[k] = "queued" => \E j \in 1..Len(workQueue) : workQueue[j] = k

C1_Witness == Cardinality(InFlight) = MaxWorkers /\ Queued /= {}

\* C2: once send_data_to_lumu has returned (and so whenever main has gone on
\* to calculate_statistics or print_statistics) every chunk has reached a
\* terminal outcome: none is new, queued or in flight.
C2_UploadBarrier ==
    (send_pc = "returned" \/ stats_pc /= "idle" \/ printed)
        => /\ \A k \in 1..Len(chunks) : batchState[k] \in Terminal
           /\ workers.running = {}
           /\ \A j \in 1..Len(workQueue) : workQueue[j] = 0

C2_Witness ==
    /\ pc = "stats" /\ stats_pc = "call"
    /\ Len(dns_queries) = 3 /\ Len(chunks) = 1
    /\ batchState[1] = "fail"

\* C3: whatever chunks succeed or fail, no chunk is ever posted twice, a
\* failure never raises out of the call or stops the upload, and when
\* send_data_to_lumu returns every chunk has been posted exactly once.
C3_ExactlyOnce ==
    /\ \A k \in 1..Len(posts) : posts[k] <= 1
    /\ send_pc \in {"submit", "join", "returned"} => exc = "None"
    /\ send_pc \in {"submit", "join"} => ENABLED SendNext
    /\ send_pc = "returned" =>
           \A k \in 1..Len(chunks) : posts[k] = 1 /\ batchState[k] \in Terminal

C3_Witness ==
    /\ send_pc = "returned"
    /\ Len(chunks) > MaxWorkers
    /\ \E k \in 1..Len(chunks) : batchState[k] = "fail"
    /\ \E k \in 1..Len(chunks) : batchState[k] = "ok"

RECURSIVE Flatten(_)
Flatten(ss) == IF ss = <<>> THEN <<>> ELSE Head(ss) \o Flatten(Tail(ss))

\* C4: for a positive chunk_size the chunks are a lossless partition of data
\* in order: their concatenation is data, every chunk but the last has
\* chunk_size records, the last has 1..chunk_size, empty data gives no chunk,
\* and chunk_size > len(data) > 0 gives the single chunk data.
C4_LosslessPartition ==
    (send_pc \in {"submit", "join", "returned"} /\ chunk_size > 0)
        => /\ Flatten(chunks) = data
           /\ \A k \in 1..(Len(chunks) - 1) : Len(chunks[k]) = chunk_size
           /\ chunks /= <<>> => Len(chunks[Len(chunks)]) \in 1..chunk_size
           /\ data = <<>> => chunks = <<>>
           /\ (chunk_size > Len(data) /\ data /= <<>>) => chunks = <<data>>

C4_Witness ==
    /\ send_pc = "returned" /\ chunk_size = 3
    /\ Len(chunks) = 3 /\ Len(chunks[3]) = 1

\* C5: a chunk_size that is zero or negative makes send_data_to_lumu end in
\* an error, and it never returns normally with records left unsent.
C5_NonPositiveSizeIsError ==
    (chunk_size <= 0 /\ send_pc \in {"returned", "raised"})
        => /\ send_pc = "raised" /\ exc /= "None"
           /\ ~(send_pc = "returned" /\ Len(Flatten(chunks)) < Len(data))

(***************************************************************************)
(* The tokens of a line, stated without the splitting loop: a token starts *)
(* at a non-blank character that is first or follows a blank, and runs to  *)
(* the last character before the next blank.                               *)
(***************************************************************************)
RefTokenStarts(s) ==
    {i \in 1..Len(s) : s[i] \notin Whitespace /\ (i = 1 \/ s[i - 1] \in Whitespace)}

RefToken(s, k) ==
    LET st == CHOOSE i \in RefTokenStarts(s) :
                  Cardinality({j \in RefTokenStarts(s) : j < i}) = k - 1
        en == CHOOSE j \in st..Len(s) :
                  /\ \A x \in st..j : s[x] \notin Whitespace
                  /\ (j = Len(s) \/ s[j + 1] \in Whitespace)
    IN SubSeq(s, st, en)

RefParsable(s) ==
    /\ Cardinality(RefTokenStarts(s)) >= 13
    /\ ~Strptime(RefToken(s, 1) \o <<" ">> \o RefToken(s, 2)).err

\* ip is tok cut before its first '#'.
RefCutAtHash(ip, tok) ==
    /\ Len(ip) <= Len(tok)
    /\ \A i \in 1..Len(ip) : ip[i] = tok[i] /\ ip[i] /= "#"
    /\ (Len(ip) = Len(tok) \/ tok[Len(ip) + 1] = "#")

\* C6: on a readable file parse_log_file returns, without raising and in line
\* order, exactly one record per line with at least 13 tokens and a parsable
\* timestamp in tokens 0 and 1, none for any other line; each record takes
\* client_name from token 5, client_ip from token 6 cut before its first '#',
\* name from token 9 and type from token 11.
C6_ParseExact ==
    (parse_pc = "returned" /\ ~fileErr)
        => LET good == {i \in 1..Len(file) : RefParsable(file[i])}
           IN /\ exc = "None"
              /\ Len(dns_queries) = Cardinality(good)
              /\ \A i \in good :
                     LET r == dns_queries[Cardinality({j \in good : j <= i})]
                     IN /\ r.client_name = RefToken(file[i], 6)
                        /\ RefCutAtHash(r.client_ip, RefToken(file[i], 7))
                        /\ r.name = RefToken(file[i], 10)
                        /\ r.type = RefToken(file[i], 12)

C6_Witness ==
    /\ parse_pc = "returned" /\ ~fileErr
    /\ Len(file) = 3 /\ Len(dns_queries) = 2 /\ skipMsgs = 1
    /\ ~RefParsable(file[1]) /\ RefParsable(file[2]) /\ RefParsable(file[3])
    /\ \E i \in 1..Len(RefToken(file[2], 7)) : RefToken(file[2], 7)[i] = "#"
    /\ Cardinality(RefTokenStarts(file[3])) = 13

\* C7: when the log cannot be opened or a read fails, parse_log_file returns
\* an empty list, never the records parsed before the error.
C7_ErrorYieldsEmpty ==
    (parse_pc = "returned" /\ fileErr) => dns_queries = <<>>

\* C8: after a file access error main stops: it never goes on to the upload,
\* the statistics or the report.
C8_FileErrorIsFatal ==
    fileErr => (pc = "parse" /\ send_pc = "idle" /\ stats_pc = "idle" /\ ~printed)

\* C9: with no parsable line calculate_statistics returns total_records = 0
\* and two empty ranks, raises nothing, and evaluates no division by
\* total_records.
C9_EmptyInput ==
    (stats_pc \in {"returned", "raised"} /\ dns_queries = <<>>)
        => /\ stats_pc = "returned" /\ exc = "None"
           /\ total_records = 0
           /\ client_ip_rank = <<>> /\ host_rank = <<>>
           /\ divisions = 0

C9_Witness ==
    /\ pc = "done" /\ printed /\ ~fileErr
    /\ Len(file) = 2 /\ dns_queries = <<>> /\ total_records = 0

RECURSIVE SumCounts(_)
SumCounts(rank) == IF rank = <<>> THEN 0 ELSE Head(rank)[2] + SumCounts(Tail(rank))

\* rank is the top-TopN ranking of the keys, stated from the key sequence.
RefRank(rank, keys, total) ==
    LET n == Len(keys)
        K == {keys[i] : i \in 1..n}
        cnt(k) == Cardinality({i \in 1..n : keys[i] = k})
        first(k) == CHOOSE i \in 1..n : keys[i] = k /\ \A j \in 1..(i - 1) : keys[j] /= k
        In == {rank[a][1] : a \in 1..Len(rank)}
    IN /\ Len(rank) = Min(TopN, Cardinality(K))
       /\ \A a \in 1..Len(rank) :
              /\ rank[a][1] \in K
              /\ rank[a][2] = cnt(rank[a][1])
              /\ rank[a][3].den /= 0
              /\ rank[a][3].num * total = 100 * rank[a][2] * rank[a][3].den
       /\ \A a, b \in 1..Len(rank) :
              a < b => /\ rank[a][1] /= rank[b][1]
                       /\ rank[a][2] >= rank[b][2]
                       /\ rank[a][2] = rank[b][2] => first(rank[a][1]) < first(rank[b][1])
       /\ \A k \in K \ In : \A a \in 1..Len(rank) : cnt(k) <= rank[a][2]
       /\ SumCounts(rank) <= total

\* C10: for a non-empty record list each rank of calculate_statistics is the
\* top 5 of its field: distinct keys with their exact counts, non-increasing
\* in count with ties in first-encountered order, min(5, distinct keys) long,
\* no omitted key more frequent than an included one, counts summing to at
\* most total_records, each percentage equal to 100 * count / total_records.
C10_TopFiveRanks ==
    (stats_pc \in {"returned", "raised"} /\ dns_queries /= <<>>)
        => /\ stats_pc = "returned"
           /\ total_records = Len(dns_queries)
           /\ RefRank(client_ip_rank, FieldOf(dns_queries, "client_ip"), total_records)
           /\ RefRank(host_rank, FieldOf(dns_queries, "name"), total_records)

C10_Witness ==
    /\ stats_pc = "returned"
    /\ Len(client_ip_rank) = TopN /\ Len(host_rank) = TopN
    /\ Cardinality({dns_queries[i].client_ip : i \in 1..Len(dns_queries)}) > TopN
    /\ client_ip_rank[1][2] = client_ip_rank[2][2]
    /\ client_ip_rank[1][1] /= dns_queries[1].client_ip

=============================================================================
